---- MODULE Spec2Model ----
(***************************************************************************)
(* Model of the Wyronix V3 browser client (src/app.js): the WyronixEngine  *)
(* object, the DOM elements it drives, the session bootstrap request and   *)
(* the WebSocket update stream whose tagged messages handleBackendMessage  *)
(* routes to the three stage cards.                                        *)
(*                                                                         *)
(* Conventions.  An optional JavaScript value (a property that may be      *)
(* absent) is a set with at most one element: {} is "undefined", {v} is    *)
(* the value v.  A string built by a template or by + is the tuple of its  *)
(* parts; the code preview buffer is a sequence of characters so that +=   *)
(* is real concatenation.  The page is taken to supply every element the   *)
(* constructor looks up (the code dereferences several of them unguarded), *)
(* initially as resetUI leaves them, with no inline style and no           *)
(* 'active-card' or 'intense' class; whether the export button starts      *)
(* disabled is left open.                                                  *)
(*                                                                         *)
(* Spec explores whole sessions (submit, bootstrap, streams that may       *)
(* overlap) with one event per tag; RouterSpec explores one open stream    *)
(* with every shape of event.                                              *)
(***************************************************************************)
EXTENDS Integers, Sequences, FiniteSets, TLC

\* ---------------------------------------------------------------- bounds
\* user submit actions (Enter key presses) explored
MaxSubmits == 2
\* tagged messages delivered on one update stream
MaxMsgs == 3
\* tagged messages delivered in a run that explores whole sessions
MaxStreamMsgs == 2
\* Enter presses in a run that explores the free-tier quota
MaxPresses == 4
\* clicks on the navigation and on the modal's controls
MaxClicks == 3

\* ------------------------------------------------------ program constants
\* free tier: searches allowed before the paywall
FreeQuota == 3
\* a gauge strictly above this value gets the "intense" class
IntenseAbove == 70

\* ------------------------------------------------------------ JS helpers
\* JavaScript truthiness of an optional string, number, character sequence
Truthy(o) == o # {} /\ o # {""}
TruthyNum(o) == o # {} /\ o # {0}
TruthySeq(o) == o # {} /\ o # {<<>>}
Val(o) == CHOOSE v \in o : TRUE
\* the JavaScript expression  o || d
OrElse(o, d) == IF Truthy(o) THEN Val(o) ELSE d
OrElseNum(o, d) == IF TruthyNum(o) THEN Val(o) ELSE d

\* ------------------------------------------------------------- the cards
CardNames == {"cardSearch", "cardAnalyst", "cardDev"}
DimBorder == "rgba(255,255,255,0.1)"

\* ------------------------------------------------------ message universe
Contents == {{}, {"scan"}}
TagValues == {{}, {"ai"}}
HeatValues == {{}, {20}, {80}}
RoiValues == {{}, {70}, {71}}
Verdicts == {{}, {"GO"}}
Files == {{}, {"main.py"}}
Codes == {{}, {<<"x">>}, {<<"y", "z">>}}
Metrics(h, r, v) == [heat |-> h, roi |-> r, verdict |-> v]
MetricsValues ==
  {{Metrics(h, r, {})} : h \in HeatValues, r \in RoiValues}
  \cup {{Metrics({}, {}, v)} : v \in Verdicts}

Msg(a, c, t, m, f, k) ==
  [agent |-> a, content |-> c, tag |-> t, metrics |-> m, file |-> f, code |-> k]
NoMsg == Msg("", {}, {}, {}, {}, {})

\* every shape of update event the router is exercised with
Messages ==
  {Msg("SEARCH", c, t, {}, {}, {}) : c \in Contents, t \in TagValues}
  \cup {Msg("ANALYST", c, {}, {}, {}, {}) : c \in Contents}
  \cup {Msg("ANALYST", {}, {}, m, {}, {}) : m \in MetricsValues}
  \cup {Msg("DEV", {}, {}, {}, f, k) : f \in Files, k \in Codes}
  \cup {Msg("COMPLETE", {}, {}, {}, {}, {})}
  \cup {Msg("ERROR", c, {}, {}, {}, {}) : c \in Contents}
  \cup {Msg("PING", c, {}, {}, {}, {}) : c \in Contents}

\* one event per tag, for the runs that explore whole sessions
StreamMessages ==
  {Msg("SEARCH", {"scan"}, {}, {}, {}, {}),
   Msg("ANALYST", {}, {}, {Metrics({80}, {}, {})}, {}, {}),
   Msg("DEV", {}, {}, {}, {}, {<<"x">>}),
   Msg("COMPLETE", {}, {}, {}, {}, {}),
   Msg("ERROR", {}, {}, {}, {}, {}),
   Msg("PING", {}, {}, {}, {}, {})}

VARIABLES
  state,        \* this.state: status, idea, sessionId
  isPremium,    \* this.isPremium
  searchCount,  \* this.searchCount (mirrored into localStorage)
  health,       \* the constructor's health request: "pending" or "done"
  fetches,      \* bootstrap requests in issue order: "pending", "ok", "failed"
  sockets,      \* WebSockets in creation order
  island,       \* dynamicIsland, islandText, islandSpinner, islandStatusDot
  cards,        \* cardSearch, cardAnalyst, cardDev
  terminal,     \* searchTerminal: its log entries
  tags,         \* searchTags
  gauges,       \* analystGauges, progressHeat, progressROI, valHeat, valROI
  verdict,      \* analystVerdict
  fileTree,     \* fileTree
  codePreview,  \* codePreview.innerText
  btnExport,    \* btnExport
  paywall,      \* paywallModal is hidden
  inputBox,     \* the input's parent border colour and pending shake timers
  submits,      \* Enter key presses so far
  codeLog,      \* history: code payloads appended since the last resetUI
  navActive,    \* the nav items that carry the class 'active'
  blueprintModal, \* #blueprintModal: its classes 'open' and 'hidden'
  scrolled,     \* the section ids passed to scrollToSection, in order
  clicks,       \* clicks on nav items and modal controls so far
  last          \* the handler that ran last, its socket and its message

vars == <<state, isPremium, searchCount, health, fetches, sockets, island,
          cards, terminal, tags, gauges, verdict, fileTree, codePreview,
          btnExport, paywall, inputBox, submits, codeLog, navActive,
          blueprintModal, scrolled, clicks, last>>

dom == <<island, cards, terminal, tags, gauges, verdict, fileTree,
         codePreview, btnExport>>

page == <<navActive, blueprintModal, scrolled, clicks>>

Ran(op, s, m) == [op |-> op, sock |-> s, msg |-> m]
\* Enter pressed with this text in the input box
Pressed(op, raw) == [op |-> op, sock |-> 0, msg |-> NoMsg, raw |-> raw]

\* ------------------------------------------------------------ UI helpers
RedDot == "#ff2a6d"
GreenDot == "#00ff9d"

updateIsland(isl, mode, text, showSpinner) ==
  [isl EXCEPT !.className = <<"dynamic-island", mode>>,
              !.text = text,
              !.spinnerHidden = ~showSpinner,
              !.dotHidden = showSpinner]

setDot(isl, colour) == [isl EXCEPT !.dotBackground = colour]

setActiveCard(cs, card) ==
  [c \in CardNames |->
     IF c = card
     THEN [cs[c] EXCEPT !.opacity = "1", !.activeCard = TRUE]
     ELSE [cs[c] EXCEPT !.opacity = "0.4"]]

\* mutant: completing one card clears the active marker of every card
completeCardAll(cs, card) ==
  [c \in CardNames |->
     IF c = card
     THEN [cs[c] EXCEPT !.opacity = "1", !.activeCard = FALSE,
                        !.borderColor = DimBorder]
     ELSE [cs[c] EXCEPT !.opacity = "1", !.activeCard = FALSE]]

completeCard(cs, card) ==
  [c \in CardNames |->
     IF c = card
     THEN [cs[c] EXCEPT !.opacity = "1", !.activeCard = FALSE,
                        !.borderColor = DimBorder]
     ELSE [cs[c] EXCEPT !.opacity = "1"]]

\* mutant: the new entry is inserted before the existing ones
logToTerminalOnTop(t, text) == <<text>> \o t

logToTerminal(t, text) == Append(t, text)

addTag(ts, text) == Append(ts, text)

addFile(ft, filename) == Append(ft, <<"file", filename>>)

\* mutant: = instead of +=
appendCodeOverwrites(buf, text) == text

appendCode(buf, text) == buf \o text

Pct(n) == <<n, "%">>

\* the metrics branch of the ANALYST case
showMetrics(g, m) ==
  LET heat == OrElseNum(m.heat, 0)
      roi == OrElseNum(m.roi, 0)
  IN [g EXCEPT !.opacity0 = FALSE,
               !.heatWidth = Pct(heat),
               !.heatIntense = IF heat > IntenseAbove THEN TRUE ELSE @,
               !.roiWidth = Pct(roi),
               !.roiIntense = IF roi > IntenseAbove THEN TRUE ELSE @,
               !.valHeat = Pct(heat),
               !.valROI = Pct(roi)]

showVerdict(v, m) ==
  IF Truthy(m.verdict) THEN [text |-> Val(m.verdict), hidden |-> FALSE] ELSE v

TreeRoot == <<"tree-root", "/root">>

\* ----------------------------------------------------------------- Init
\* the nav items, by their data-target
NavTargets == <<"dashboard", "market", "blueprint">>
NavItems == DOMAIN NavTargets

\* the page as loaded, before any click: the first nav item is marked
PageLoaded ==
  /\ navActive = {1}
  /\ blueprintModal = [open |-> FALSE, hidden |-> FALSE]
  /\ scrolled = <<>>
  /\ clicks = 0

Constructed ==
  /\ state = [status |-> "STANDBY", idea |-> <<>>, sessionId |-> {}]
  /\ isPremium \in BOOLEAN
  /\ searchCount \in IF isPremium THEN {0} ELSE {FreeQuota - 1}
  /\ health = "pending"
  /\ fetches = <<>>
  /\ sockets = <<>>
  /\ island = [className |-> <<"dynamic-island">>, text |-> "",
               spinnerHidden |-> TRUE, dotHidden |-> FALSE,
               dotBackground |-> ""]
  /\ cards = [c \in CardNames |->
                [opacity |-> "", activeCard |-> FALSE, borderColor |-> ""]]
  /\ terminal = <<>>
  /\ tags = <<>>
  /\ gauges = [opacity0 |-> TRUE, heatWidth |-> <<>>, roiWidth |-> <<>>,
               heatIntense |-> FALSE, roiIntense |-> FALSE,
               valHeat |-> <<>>, valROI |-> <<>>]
  /\ verdict = [text |-> "", hidden |-> TRUE]
  /\ fileTree = <<TreeRoot>>
  /\ codePreview = <<>>
  /\ btnExport \in [hidden : {TRUE}, disabled : BOOLEAN]
  /\ paywall = [hidden |-> TRUE]
  /\ inputBox = [borderColor |-> "", timers |-> 0]
  /\ submits = 0
  /\ codeLog = <<>>
  /\ last = Ran("constructor", 0, NoMsg)

Init == Constructed /\ PageLoaded

\* -------------------------------------------------------------- actions
engine == <<state, isPremium, searchCount>>
net == <<health, fetches, sockets>>
chrome == <<paywall, inputBox, submits>>
hist == <<codeLog>>

\* String.prototype.trim on a sequence of characters
RECURSIVE TrimLeft(_)
TrimLeft(s) == IF s # <<>> /\ Head(s) = " " THEN TrimLeft(Tail(s)) ELSE s
RECURSIVE TrimRight(_)
TrimRight(s) ==
  IF s # <<>> /\ s[Len(s)] = " " THEN TrimRight(SubSeq(s, 1, Len(s) - 1)) ELSE s
Trim(s) == TrimRight(TrimLeft(s))

InputValues == {<<>>, <<" ">>, <<"a">>, <<" ", "a", " ">>}

AccentRed == "var(--accent-red)"

\* checkServerHealth: the three ways the health request ends
HealthOnline ==
  /\ health = "pending"
  /\ health' = "done"
  /\ island' = setDot(updateIsland(island, "idle", "SYSTEM ONLINE", FALSE), GreenDot)
  /\ last' = Ran("health", 0, NoMsg)
  /\ UNCHANGED <<page, hist, engine, fetches, sockets, cards, terminal, tags, gauges,
                 verdict, fileTree, codePreview, btnExport, chrome>>

HealthNotOk ==
  /\ health = "pending"
  /\ health' = "done"
  /\ last' = Ran("health", 0, NoMsg)
  /\ UNCHANGED <<page, hist, engine, fetches, sockets, dom, chrome>>

HealthOffline ==
  /\ health = "pending"
  /\ health' = "done"
  /\ island' = setDot(updateIsland(island, "idle", "OFFLINE MODE", FALSE), RedDot)
  /\ last' = Ran("health", 0, NoMsg)
  /\ UNCHANGED <<page, hist, engine, fetches, sockets, cards, terminal, tags, gauges,
                 verdict, fileTree, codePreview, btnExport, chrome>>

\* initiateRealProtocol, empty idea: shakeInput and return
SubmitEmpty(raw) ==
  /\ Trim(raw) = <<>>
  /\ submits' = submits + 1
  /\ inputBox' = [borderColor |-> AccentRed, timers |-> inputBox.timers + 1]
  /\ last' = Pressed("submit-empty", raw)
  /\ UNCHANGED <<page, hist, engine, net, dom, paywall>>

\* the timer shakeInput sets
ShakeTimeout ==
  /\ inputBox.timers > 0
  /\ inputBox' = [borderColor |-> DimBorder, timers |-> inputBox.timers - 1]
  /\ last' = Ran("shake-timeout", 0, NoMsg)
  /\ UNCHANGED <<page, hist, engine, net, dom, paywall, submits>>

\* initiateRealProtocol, quota reached: show the paywall and return
SubmitPaywall(raw) ==
  /\ Trim(raw) # <<>>
  /\ ~isPremium /\ searchCount >= FreeQuota
  /\ submits' = submits + 1
  /\ paywall' = [hidden |-> FALSE]
  /\ last' = Pressed("submit-paywall", raw)
  /\ UNCHANGED <<page, hist, engine, net, dom, inputBox>>

ClosePaywall ==
  /\ ~paywall.hidden
  /\ paywall' = [hidden |-> TRUE]
  /\ last' = Ran("close-paywall", 0, NoMsg)
  /\ UNCHANGED <<page, hist, engine, net, dom, inputBox, submits>>

\* mutant: the quota test lets a search through at the limit
SubmitStartAtLimit(raw) ==
  /\ Trim(raw) # <<>>
  /\ isPremium \/ searchCount <= FreeQuota
  /\ submits' = submits + 1
  /\ searchCount' = IF isPremium THEN searchCount ELSE searchCount + 1
  /\ state' = [state EXCEPT !.idea = Trim(raw), !.status = "CONNECTING"]
  /\ island' = updateIsland(island, "active", "ESTABLISHING UPLINK...", TRUE)
  /\ terminal' = <<>>
  /\ tags' = <<>>
  /\ fileTree' = <<TreeRoot>>
  /\ codePreview' = <<>>
  /\ codeLog' = <<>>
  /\ verdict' = [verdict EXCEPT !.hidden = TRUE]
  /\ gauges' = [gauges EXCEPT !.opacity0 = TRUE]
  /\ btnExport' = [btnExport EXCEPT !.hidden = TRUE]
  /\ fetches' = Append(fetches, "pending")
  /\ last' = Pressed("submit", raw)
  /\ UNCHANGED <<page, isPremium, health, sockets, cards, paywall, inputBox>>

\* initiateRealProtocol up to its first await: count, lock, reset, fetch
SubmitStart(raw) ==
  /\ Trim(raw) # <<>>
  /\ isPremium \/ searchCount < FreeQuota
  /\ submits' = submits + 1
  /\ searchCount' = IF isPremium THEN searchCount ELSE searchCount + 1
  /\ state' = [state EXCEPT !.idea = Trim(raw), !.status = "CONNECTING"]
  /\ island' = updateIsland(island, "active", "ESTABLISHING UPLINK...", TRUE)
  \* resetUI
  /\ terminal' = <<>>
  /\ tags' = <<>>
  /\ fileTree' = <<TreeRoot>>
  /\ codePreview' = <<>>
  /\ codeLog' = <<>>
  /\ verdict' = [verdict EXCEPT !.hidden = TRUE]
  /\ gauges' = [gauges EXCEPT !.opacity0 = TRUE]
  /\ btnExport' = [btnExport EXCEPT !.hidden = TRUE]
  /\ fetches' = Append(fetches, "pending")
  /\ last' = Pressed("submit", raw)
  /\ UNCHANGED <<page, isPremium, health, sockets, cards, paywall, inputBox>>

\* the server's session identifier for the r-th bootstrap request
SessionId(r) == r

NewSocket(sid) ==
  [sessionId |-> sid, readyState |-> "CONNECTING", failed |-> FALSE, rx |-> 0]

\* initiateRealProtocol after a successful /start, and connectWebSocket
BootstrapOk(r) ==
  /\ r \in DOMAIN fetches /\ fetches[r] = "pending"
  /\ fetches' = [fetches EXCEPT ![r] = "ok"]
  /\ state' = [state EXCEPT !.sessionId = {SessionId(r)}]
  /\ island' = updateIsland(island, "active", "AWAITING NEURAL FEED...", TRUE)
  /\ sockets' = Append(sockets, NewSocket(SessionId(r)))
  /\ last' = Ran("bootstrap-ok", Len(sockets) + 1, NoMsg)
  /\ UNCHANGED <<page, hist, isPremium, searchCount, health, cards, terminal, tags, gauges,
                 verdict, fileTree, codePreview, btnExport, chrome>>

ErrorMessages == {"Server Rejected Connection", "Failed to fetch"}

\* mutant: the failure changes the island but writes no line to the log
BootstrapFailSilent(r, message) ==
  /\ r \in DOMAIN fetches /\ fetches[r] = "pending"
  /\ fetches' = [fetches EXCEPT ![r] = "failed"]
  /\ island' = setDot(updateIsland(island, "idle", "CONNECTION FAILED", FALSE), RedDot)
  /\ last' = Ran("bootstrap-failed", 0, NoMsg)
  /\ UNCHANGED <<page, hist, engine, health, sockets, cards, terminal, tags, gauges,
                 verdict, fileTree, codePreview, btnExport, chrome>>

\* initiateRealProtocol's catch block
BootstrapFail(r, message) ==
  /\ r \in DOMAIN fetches /\ fetches[r] = "pending"
  /\ fetches' = [fetches EXCEPT ![r] = "failed"]
  /\ island' = setDot(updateIsland(island, "idle", "CONNECTION FAILED", FALSE), RedDot)
  /\ terminal' = logToTerminal(terminal, <<"[ERROR] Connection Refused: ", message>>)
  /\ last' = Ran("bootstrap-failed", 0, NoMsg)
  /\ UNCHANGED <<page, hist, engine, health, sockets, cards, tags, gauges, verdict,
                 fileTree, codePreview, btnExport, chrome>>

\* ------------------------------------------------------ the update stream
Live(i) == i \in DOMAIN sockets /\ sockets[i].readyState # "CLOSED"

\* socket.onopen
OnOpen(i) ==
  /\ i \in DOMAIN sockets
  /\ sockets[i].readyState = "CONNECTING" /\ ~sockets[i].failed
  /\ sockets' = [sockets EXCEPT ![i].readyState = "OPEN"]
  /\ terminal' = logToTerminal(terminal, <<"[SYSTEM] Secure Uplink Established.">>)
  /\ last' = Ran("open", i, NoMsg)
  /\ UNCHANGED <<page, hist, engine, health, fetches, island, cards, tags, gauges, verdict,
                 fileTree, codePreview, btnExport, chrome>>

\* handleBackendMessage, case 'SEARCH'
caseSearch(msg) ==
  /\ cards' = setActiveCard(cards, "cardSearch")
  /\ terminal' = IF Truthy(msg.content)
                 THEN logToTerminal(terminal, <<"> ", Val(msg.content)>>)
                 ELSE terminal
  /\ tags' = IF Truthy(msg.tag) THEN addTag(tags, Val(msg.tag)) ELSE tags
  /\ UNCHANGED <<island, gauges, verdict, fileTree, codePreview, btnExport, codeLog>>

\* mutant: ANALYST highlights its card without completing SEARCH
caseAnalystSkipsComplete(msg) ==
  /\ cards' = setActiveCard(cards, "cardAnalyst")
  /\ gauges' = IF msg.metrics # {}
               THEN showMetrics(gauges, Val(msg.metrics))
               ELSE gauges
  /\ verdict' = IF msg.metrics # {}
                THEN showVerdict(verdict, Val(msg.metrics))
                ELSE verdict
  /\ terminal' = IF Truthy(msg.content)
                 THEN logToTerminal(terminal, <<"[ANALYST] ", Val(msg.content)>>)
                 ELSE terminal
  /\ UNCHANGED <<island, tags, fileTree, codePreview, btnExport, codeLog>>

\* handleBackendMessage, case 'ANALYST'
caseAnalyst(msg) ==
  /\ cards' = setActiveCard(completeCard(cards, "cardSearch"), "cardAnalyst")
  /\ gauges' = IF msg.metrics # {}
               THEN showMetrics(gauges, Val(msg.metrics))
               ELSE gauges
  /\ verdict' = IF msg.metrics # {}
                THEN showVerdict(verdict, Val(msg.metrics))
                ELSE verdict
  /\ terminal' = IF Truthy(msg.content)
                 THEN logToTerminal(terminal, <<"[ANALYST] ", Val(msg.content)>>)
                 ELSE terminal
  /\ UNCHANGED <<island, tags, fileTree, codePreview, btnExport, codeLog>>

\* handleBackendMessage, case 'DEV'
caseDev(msg) ==
  /\ cards' = setActiveCard(completeCard(cards, "cardAnalyst"), "cardDev")
  /\ fileTree' = IF Truthy(msg.file)
                 THEN addFile(fileTree, Val(msg.file))
                 ELSE fileTree
  /\ codePreview' = IF TruthySeq(msg.code)
                    THEN appendCode(codePreview, Val(msg.code))
                    ELSE codePreview
  /\ codeLog' = IF TruthySeq(msg.code)
                THEN Append(codeLog, Val(msg.code))
                ELSE codeLog
  /\ UNCHANGED <<island, terminal, tags, gauges, verdict, btnExport>>

\* mutant: COMPLETE also reveals and enables the export button
caseCompleteEnablesExport(msg) ==
  /\ cards' = completeCard(cards, "cardDev")
  /\ island' = updateIsland(island, "success", "SEQUENCE COMPLETE", FALSE)
  /\ btnExport' = [hidden |-> FALSE, disabled |-> FALSE]
  /\ UNCHANGED <<terminal, tags, gauges, verdict, fileTree, codePreview, codeLog>>

\* handleBackendMessage, case 'COMPLETE'
caseComplete(msg) ==
  /\ cards' = completeCard(cards, "cardDev")
  /\ island' = updateIsland(island, "success", "SEQUENCE COMPLETE", FALSE)
  /\ UNCHANGED <<terminal, tags, gauges, verdict, fileTree, codePreview,
                 btnExport, codeLog>>

\* mutant: the error line is written but the island keeps its state
caseErrorKeepsStatus(msg) ==
  /\ terminal' = logToTerminal(terminal,
                   <<"[ERROR] ", OrElse(msg.content, "Unknown error occurred")>>)
  /\ UNCHANGED <<island, cards, tags, gauges, verdict, fileTree, codePreview,
                 btnExport, codeLog>>

\* handleBackendMessage, case 'ERROR'
caseError(msg) ==
  /\ terminal' = logToTerminal(terminal,
                   <<"[ERROR] ", OrElse(msg.content, "Unknown error occurred")>>)
  /\ island' = setDot(updateIsland(island, "idle", "ERROR OCCURRED", FALSE), RedDot)
  /\ UNCHANGED <<cards, tags, gauges, verdict, fileTree, codePreview,
                 btnExport, codeLog>>

\* mutant: an unknown event's content is written to the log
caseDefaultLogs(msg) ==
  /\ terminal' = IF Truthy(msg.content)
                 THEN logToTerminal(terminal, <<"> ", Val(msg.content)>>)
                 ELSE terminal
  /\ UNCHANGED <<island, cards, tags, gauges, verdict, fileTree, codePreview,
                 btnExport, codeLog>>

\* handleBackendMessage, default: a console warning only
caseDefault(msg) ==
  UNCHANGED <<island, cards, terminal, tags, gauges, verdict, fileTree,
              codePreview, btnExport, codeLog>>

\* handleBackendMessage: the switch on msg.agent
handleBackendMessage(msg) ==
  CASE msg.agent = "SEARCH" -> caseSearch(msg)
    [] msg.agent = "ANALYST" -> caseAnalyst(msg)
    [] msg.agent = "DEV" -> caseDev(msg)
    [] msg.agent = "COMPLETE" -> caseComplete(msg)
    [] msg.agent = "ERROR" -> caseError(msg)
    [] OTHER -> caseDefault(msg)

\* socket.onmessage
OnMessage(i, msg) ==
  /\ i \in DOMAIN sockets
  /\ sockets[i].readyState = "OPEN" /\ ~sockets[i].failed
  /\ sockets' = [sockets EXCEPT ![i].rx = @ + 1]
  /\ handleBackendMessage(msg)
  /\ last' = Ran("message", i, msg)
  /\ UNCHANGED <<page, engine, health, fetches, chrome>>

\* mutant: a transport error reopens the stream of the same session
OnErrorReconnects(i) ==
  /\ Live(i) /\ ~sockets[i].failed
  /\ sockets' = Append([sockets EXCEPT ![i].failed = TRUE],
                       NewSocket(sockets[i].sessionId))
  /\ terminal' = logToTerminal(terminal, <<"[ERROR] Signal Lost.">>)
  /\ last' = Ran("error", i, NoMsg)
  /\ UNCHANGED <<page, hist, engine, health, fetches, island, cards, tags, gauges, verdict,
                 fileTree, codePreview, btnExport, chrome>>

\* socket.onerror; the browser closes a failed connection next
OnError(i) ==
  /\ Live(i) /\ ~sockets[i].failed
  /\ sockets' = [sockets EXCEPT ![i].failed = TRUE]
  /\ terminal' = logToTerminal(terminal, <<"[ERROR] Signal Lost.">>)
  /\ last' = Ran("error", i, NoMsg)
  /\ UNCHANGED <<page, hist, engine, health, fetches, island, cards, tags, gauges, verdict,
                 fileTree, codePreview, btnExport, chrome>>

\* mutant: closure keeps a failure state the island already shows
OnCloseKeepsFailure(i) ==
  /\ Live(i)
  /\ sockets[i].readyState = "OPEN" \/ sockets[i].failed
  /\ sockets' = [sockets EXCEPT ![i].readyState = "CLOSED"]
  /\ island' = IF island.text = "ERROR OCCURRED"
               THEN island
               ELSE updateIsland(island, "success", "SEQUENCE COMPLETE", FALSE)
  /\ btnExport' = [hidden |-> FALSE, disabled |-> FALSE]
  /\ last' = Ran("close", i, NoMsg)
  /\ UNCHANGED <<page, hist, engine, health, fetches, cards, terminal, tags, gauges,
                 verdict, fileTree, codePreview, chrome>>

\* socket.onclose
OnClose(i) ==
  /\ Live(i)
  /\ sockets[i].readyState = "OPEN" \/ sockets[i].failed
  /\ sockets' = [sockets EXCEPT ![i].readyState = "CLOSED"]
  /\ island' = updateIsland(island, "success", "SEQUENCE COMPLETE", FALSE)
  /\ btnExport' = [hidden |-> FALSE, disabled |-> FALSE]
  /\ last' = Ran("close", i, NoMsg)
  /\ UNCHANGED <<page, hist, engine, health, fetches, cards, terminal, tags, gauges,
                 verdict, fileTree, codePreview, chrome>>

RECURSIVE Delivered(_)
Delivered(ss) == IF ss = <<>> THEN 0 ELSE Head(ss).rx + Delivered(Tail(ss))

Requests == 1..MaxSubmits
SocketIds == 1..MaxSubmits

Next ==
  \/ HealthOnline
  \/ HealthNotOk
  \/ HealthOffline
  \/ /\ submits < MaxSubmits
     /\ \E raw \in InputValues : SubmitEmpty(raw)
  \/ ShakeTimeout
  \/ /\ submits < MaxSubmits
     /\ \E raw \in InputValues : SubmitPaywall(raw)
  \/ ClosePaywall
  \/ /\ submits < MaxSubmits
     /\ \E raw \in InputValues : SubmitStart(raw)
  \/ \E r \in Requests : BootstrapOk(r)
  \/ \E r \in Requests, m \in ErrorMessages : BootstrapFail(r, m)
  \/ \E i \in SocketIds : OnOpen(i)
  \/ /\ Delivered(sockets) < MaxStreamMsgs
     /\ \E i \in SocketIds, msg \in StreamMessages : OnMessage(i, msg)
  \/ \E i \in SocketIds : OnError(i)
  \/ \E i \in SocketIds : OnClose(i)

Spec == Init /\ [][Next]_vars

\* ---------------------------------- sessions and transport, no tagged events
BootNext ==
  \/ HealthOnline
  \/ HealthNotOk
  \/ HealthOffline
  \/ /\ submits < MaxSubmits
     /\ \E raw \in InputValues : SubmitEmpty(raw)
  \/ ShakeTimeout
  \/ /\ submits < MaxSubmits
     /\ \E raw \in InputValues : SubmitPaywall(raw)
  \/ ClosePaywall
  \/ /\ submits < MaxSubmits
     /\ \E raw \in InputValues : SubmitStart(raw)
  \/ \E r \in Requests : BootstrapOk(r)
  \/ \E r \in Requests, m \in ErrorMessages : BootstrapFail(r, m)
  \/ \E i \in SocketIds : OnOpen(i)
  \/ \E i \in SocketIds : OnError(i)
  \/ \E i \in SocketIds : OnClose(i)

BootSpec == Init /\ [][BootNext]_vars

\* ------------------------------------------- the free tier and its quota
\* a free-tier page: the stored count is whatever earlier visits left
QuotaInit ==
  /\ state = [status |-> "STANDBY", idea |-> <<>>, sessionId |-> {}]
  /\ isPremium = FALSE
  /\ searchCount \in 0..FreeQuota
  /\ health = "pending"
  /\ fetches = <<>>
  /\ sockets = <<>>
  /\ island = [className |-> <<"dynamic-island">>, text |-> "",
               spinnerHidden |-> TRUE, dotHidden |-> FALSE,
               dotBackground |-> ""]
  /\ cards = [c \in CardNames |->
                [opacity |-> "", activeCard |-> FALSE, borderColor |-> ""]]
  /\ terminal = <<>>
  /\ tags = <<>>
  /\ gauges = [opacity0 |-> TRUE, heatWidth |-> <<>>, roiWidth |-> <<>>,
               heatIntense |-> FALSE, roiIntense |-> FALSE,
               valHeat |-> <<>>, valROI |-> <<>>]
  /\ verdict = [text |-> "", hidden |-> TRUE]
  /\ fileTree = <<TreeRoot>>
  /\ codePreview = <<>>
  /\ btnExport \in [hidden : {TRUE}, disabled : BOOLEAN]
  /\ paywall = [hidden |-> TRUE]
  /\ inputBox = [borderColor |-> "", timers |-> 0]
  /\ submits = 0
  /\ codeLog = <<>>
  /\ last = Ran("constructor", 0, NoMsg)
  /\ PageLoaded

QuotaNext ==
  \/ /\ submits < MaxPresses
     /\ \E raw \in InputValues : SubmitEmpty(raw)
  \/ ShakeTimeout
  \/ /\ submits < MaxPresses
     /\ \E raw \in InputValues : SubmitPaywall(raw)
  \/ ClosePaywall
  \/ /\ submits < MaxPresses
     /\ \E raw \in InputValues : SubmitStart(raw)
  \/ \E r \in 1..MaxPresses : BootstrapOk(r)
  \/ \E r \in 1..MaxPresses, m \in ErrorMessages : BootstrapFail(r, m)

QuotaSpec == QuotaInit /\ [][QuotaNext]_vars

\* ----------------------------------------- navigation and blueprint modal
app == <<state, isPremium, searchCount, health, fetches, sockets, dom, paywall,
         inputBox, submits, codeLog>>

Clicked(op, item) == [op |-> op, sock |-> 0, msg |-> NoMsg, item |-> item]

\* the page has the blueprint viewer, so qs('#blueprintModal') finds it
HasBlueprintModal == TRUE

scrollToSection(s, id) == Append(s, id)

\* mutant: the clicked item is marked without unmarking the others
NavClickKeepsOthers(i) ==
  /\ navActive' = navActive \cup {i}
  /\ IF NavTargets[i] = "blueprint" /\ HasBlueprintModal
       THEN /\ blueprintModal' = [blueprintModal EXCEPT !.open = TRUE]
            /\ scrolled' = scrolled
       ELSE /\ scrolled' = scrollToSection(scrolled, NavTargets[i])
            /\ blueprintModal' = blueprintModal
  /\ clicks' = clicks + 1
  /\ last' = Clicked("nav-click", i)
  /\ UNCHANGED app

\* click on a nav item
NavClick(i) ==
  /\ navActive' = (navActive \ NavItems) \cup {i}
  /\ IF NavTargets[i] = "blueprint" /\ HasBlueprintModal
       THEN /\ blueprintModal' = [blueprintModal EXCEPT !.open = TRUE]
            /\ scrolled' = scrolled
       ELSE /\ scrolled' = scrollToSection(scrolled, NavTargets[i])
            /\ blueprintModal' = blueprintModal
  /\ clicks' = clicks + 1
  /\ last' = Clicked("nav-click", i)
  /\ UNCHANGED app

closeModal(m) == IF HasBlueprintModal THEN [m EXCEPT !.open = FALSE] ELSE m

\* click on #modalClose
ModalClose ==
  /\ blueprintModal' = closeModal(blueprintModal)
  /\ clicks' = clicks + 1
  /\ last' = Clicked("modal-close", 0)
  /\ UNCHANGED <<app, navActive, scrolled>>

\* click on #closeBlueprint
CloseBlueprint ==
  /\ blueprintModal' = closeModal(blueprintModal)
  /\ clicks' = clicks + 1
  /\ last' = Clicked("close-blueprint", 0)
  /\ UNCHANGED <<app, navActive, scrolled>>

\* click on #btnCloseModal, the engine's listener on the same element
BtnCloseModal ==
  /\ blueprintModal' = [blueprintModal EXCEPT !.hidden = TRUE]
  /\ clicks' = clicks + 1
  /\ last' = Clicked("btn-close-modal", 0)
  /\ UNCHANGED <<app, navActive, scrolled>>

\* the markup decides which nav items are marked before the first click
PageMarkup ==
  /\ navActive \in SUBSET NavItems
  /\ blueprintModal \in [open : {FALSE}, hidden : BOOLEAN]
  /\ scrolled = <<>>
  /\ clicks = 0

NavInit == Constructed /\ PageMarkup

NavNext ==
  /\ clicks < MaxClicks
  /\ \/ \E i \in NavItems : NavClick(i)
     \/ ModalClose
     \/ CloseBlueprint
     \/ BtnCloseModal

NavSpec == NavInit /\ [][NavNext]_vars

\* ------------------------------------------------- one stream, every event
\* the page once the first session's stream has opened
StreamOpened ==
  /\ state = [status |-> "CONNECTING", idea |-> <<"a">>, sessionId |-> {SessionId(1)}]
  /\ isPremium = TRUE
  /\ searchCount = 0
  /\ health = "pending"
  /\ fetches = <<"ok">>
  /\ sockets = <<[NewSocket(SessionId(1)) EXCEPT !.readyState = "OPEN"]>>
  /\ island = updateIsland([className |-> <<"dynamic-island">>, text |-> "",
                            spinnerHidden |-> TRUE, dotHidden |-> FALSE,
                            dotBackground |-> ""],
                           "active", "AWAITING NEURAL FEED...", TRUE)
  /\ cards = [c \in CardNames |->
                [opacity |-> "", activeCard |-> FALSE, borderColor |-> ""]]
  /\ terminal = <<<<"[SYSTEM] Secure Uplink Established.">>>>
  /\ tags = <<>>
  /\ gauges = [opacity0 |-> TRUE, heatWidth |-> <<>>, roiWidth |-> <<>>,
               heatIntense |-> FALSE, roiIntense |-> FALSE,
               valHeat |-> <<>>, valROI |-> <<>>]
  /\ verdict = [text |-> "", hidden |-> TRUE]
  /\ fileTree = <<TreeRoot>>
  /\ codePreview = <<>>
  /\ btnExport = [hidden |-> TRUE, disabled |-> TRUE]
  /\ paywall = [hidden |-> TRUE]
  /\ inputBox = [borderColor |-> "", timers |-> 0]
  /\ submits = 1
  /\ codeLog = <<>>
  /\ last = Ran("open", 1, NoMsg)
  /\ PageLoaded

RouterNext ==
  \/ /\ sockets[1].rx < MaxMsgs
     /\ \E msg \in Messages : OnMessage(1, msg)
  \/ OnError(1)
  \/ OnClose(1)

RouterSpec == StreamOpened /\ [][RouterNext]_vars

\* ---------------------------------------------------------------- claims
Active(c) == cards[c].activeCard
\* what completeCard leaves on a card
Completed(c) == ~cards[c].activeCard /\ cards[c].borderColor = DimBorder

Handled(agent) == last.op = "message" /\ last.msg.agent = agent
Success == <<"dynamic-island", "success">>
Failure == <<"dynamic-island", "idle">>
ExportAvailable == ~btnExport.hidden /\ ~btnExport.disabled
KnownAgents == {"SEARCH", "ANALYST", "DEV", "COMPLETE", "ERROR"}

\* C1: after every prefix of every event sequence at most one of the three
\* stage cards carries the active marker.
C1_AtMostOneActive == Cardinality({c \in CardNames : Active(c)}) <= 1

\* C2: once a stage has been completed, no later step marks it active again.
C2_CompletedStaysCompleted ==
  [][\A c \in CardNames : Completed(c) => ~Active(c)']_vars

\* C3: right after socket.onclose the island shows success and the export
\* button is visible and enabled, whatever came before (an ERROR included).
C3_CloseSignalsSuccess ==
  last.op = "close" =>
    /\ island.className = Success
    /\ island.text = "SEQUENCE COMPLETE"
    /\ ExportAvailable

\* C3 witness: a stream closed right after its only message, an ERROR.
C3_ClosedAfterError ==
  /\ last.op = "close"
  /\ Len(sockets) = 1 /\ sockets[1].rx = 1
  /\ terminal[Len(terminal)] = <<"[ERROR] ", "Unknown error occurred">>
  /\ island.dotBackground = RedDot
  /\ island.className = Success
  /\ ExportAvailable

\* C4 as stated: right after a COMPLETE event the DEV card is completed, the
\* island shows success and the export button is visible and enabled.
C4_CompleteEnablesExport ==
  Handled("COMPLETE") =>
    /\ Completed("cardDev")
    /\ island.className = Success
    /\ ExportAvailable

\* C4 as amended: a COMPLETE event completes the DEV card and sets the island
\* to success, and leaves the export button exactly as it was.
C4_CompleteLeavesExport ==
  [][(last'.op = "message" /\ last'.msg.agent = "COMPLETE") =>
       /\ Completed("cardDev")'
       /\ island'.className = Success
       /\ island'.text = "SEQUENCE COMPLETE"
       /\ btnExport' = btnExport]_vars

\* C4 witness: COMPLETE was handled and the export button is still hidden.
C4_CompletedExportHidden ==
  /\ Handled("COMPLETE")
  /\ Completed("cardDev")
  /\ island.className = Success
  /\ btnExport.hidden

\* the stream of the session started last has closed
CurrentStreamClosed ==
  \E i \in DOMAIN sockets :
    /\ sockets[i].sessionId = SessionId(Len(fetches))
    /\ sockets[i].readyState = "CLOSED"

\* C5: once a session has been started, the export button is available only
\* if the update stream of that (latest) session has closed.
C5_ExportOnlyAfterOwnClose ==
  (fetches # <<>> /\ ExportAvailable) => CurrentStreamClosed

\* C6 as stated: right after a COMPLETE event no stage card is active.
C6_CompleteClearsActive ==
  Handled("COMPLETE") => \A c \in CardNames : ~Active(c)

\* C6 as amended: a COMPLETE event removes the active marker from the DEV
\* card only; the SEARCH and ANALYST cards keep the marker they had.
C6_CompleteTouchesOnlyDev ==
  [][(last'.op = "message" /\ last'.msg.agent = "COMPLETE") =>
       /\ ~Active("cardDev")'
       /\ \A c \in {"cardSearch", "cardAnalyst"} :
            cards'[c].activeCard = cards[c].activeCard]_vars

\* C6 witness: after SEARCH, ANALYST, COMPLETE the ANALYST card is still active.
C6_AnalystStillActive ==
  /\ Handled("COMPLETE")
  /\ sockets[1].rx = 3
  /\ Completed("cardSearch")
  /\ Active("cardAnalyst")
  /\ Completed("cardDev")

\* C7: an ERROR event appends exactly one error line, sets the island to the
\* failure state, and leaves the engine state and the stream as they were:
\* the socket stays open and unfailed, so later events are still delivered.
C7_ErrorKeepsStreamOpen ==
  [][(last'.op = "message" /\ last'.msg.agent = "ERROR") =>
       /\ terminal' = Append(terminal,
            <<"[ERROR] ", IF last'.msg.content \in {{}, {""}}
                          THEN "Unknown error occurred"
                          ELSE Val(last'.msg.content)>>)
       /\ island'.className = Failure
       /\ island'.text = "ERROR OCCURRED"
       /\ sockets'[last'.sock].readyState = "OPEN"
       /\ ~sockets'[last'.sock].failed
       /\ \A i \in DOMAIN sockets :
            /\ sockets'[i].readyState = sockets[i].readyState
            /\ sockets'[i].failed = sockets[i].failed
       /\ UNCHANGED <<state, fetches, cards, btnExport>>]_vars

\* C7 witness: on one stream an ERROR was logged and the SEARCH event that
\* arrived after it was applied.
C7_EventAppliedAfterError ==
  /\ Len(sockets) = 1 /\ sockets[1].rx = 2 /\ sockets[1].readyState = "OPEN"
  /\ Handled("SEARCH")
  /\ Len(terminal) >= 2
  /\ terminal[Len(terminal) - 1] = <<"[ERROR] ", "Unknown error occurred">>
  /\ terminal[Len(terminal)] = <<"> ", "scan">>
  /\ Active("cardSearch")

\* C8: an event with an unknown agent tag changes no UI region.
C8_UnknownTagIgnored ==
  [][(last'.op = "message" /\ last'.msg.agent \notin KnownAgents) =>
       UNCHANGED <<island, cards, terminal, tags, gauges, verdict, fileTree,
                   codePreview, btnExport>>]_vars

\* C8 witness: an unknown event carrying content arrived after a SEARCH.
C8_UnknownAfterSearch ==
  /\ last.op = "message" /\ last.msg.agent = "PING"
  /\ last.msg.content = {"scan"}
  /\ sockets[1].rx = 2
  /\ Active("cardSearch")
  /\ Len(terminal) = 1

Shown(o) == IF o = {} THEN 0 ELSE Val(o)

\* C9: right after an ANALYST event with metrics each gauge shows the
\* event's value (0 when absent) and is intense iff that value exceeds 70.
C9_IntenseIffAbove ==
  (Handled("ANALYST") /\ last.msg.metrics # {}) =>
    LET m == Val(last.msg.metrics) IN
      /\ gauges.heatWidth = Pct(Shown(m.heat))
      /\ gauges.valHeat = Pct(Shown(m.heat))
      /\ gauges.heatIntense <=> (Shown(m.heat) > 70)
      /\ gauges.roiWidth = Pct(Shown(m.roi))
      /\ gauges.valROI = Pct(Shown(m.roi))
      /\ gauges.roiIntense <=> (Shown(m.roi) > 70)

RECURSIVE Concat(_)
Concat(ss) == IF ss = <<>> THEN <<>> ELSE Head(ss) \o Concat(Tail(ss))

\* C10: the code preview buffer is the concatenation, in arrival order, of
\* the code payloads of the DEV events received since the session's reset.
C10_CodeAccumulates == codePreview = Concat(codeLog)

\* C10 witness: two DEV events with different code, both kept in order.
C10_TwoChunks ==
  /\ Handled("DEV")
  /\ codeLog = << <<"x">>, <<"y", "z">> >>
  /\ codePreview = <<"x", "y", "z">>

\* C11: right after an ANALYST event the SEARCH card is completed and the
\* ANALYST card active; right after a DEV event the ANALYST card is completed
\* and the DEV card active, whatever the cards showed before.
C11_StageHandOver ==
  /\ Handled("ANALYST") => (Completed("cardSearch") /\ Active("cardAnalyst"))
  /\ Handled("DEV") => (Completed("cardAnalyst") /\ Active("cardDev"))

\* C11 witness: events out of order: DEV, SEARCH, then ANALYST completes the
\* active SEARCH card while the DEV card is still marked active.
C11_AnalystAfterDevSearch ==
  /\ Handled("ANALYST")
  /\ sockets[1].rx = 3
  /\ Completed("cardSearch")
  /\ Active("cardAnalyst")
  /\ Active("cardDev")

NoBootstrapSucceeded == \A r \in DOMAIN fetches : fetches[r] # "ok"

\* C12: a failed bootstrap call puts the island in the connection-failed
\* state with a red dot, appends one error line to the log, stores no session
\* identifier and opens no stream; while no bootstrap call has succeeded the
\* client holds no session identifier and no stream exists.
C12_BootstrapFailure ==
  /\ [](NoBootstrapSucceeded => (state.sessionId = {} /\ sockets = <<>>))
  /\ [][last'.op = "bootstrap-failed" =>
          /\ island'.className = Failure
          /\ island'.text = "CONNECTION FAILED"
          /\ island'.dotBackground = RedDot
          /\ \E m \in ErrorMessages :
               terminal' = Append(terminal, <<"[ERROR] Connection Refused: ", m>>)
          /\ state'.sessionId = state.sessionId
          /\ sockets' = sockets]_vars

\* C12 witness: the only bootstrap call was rejected by the server.
C12_Rejected ==
  /\ last.op = "bootstrap-failed"
  /\ fetches = <<"failed">>
  /\ island.text = "CONNECTION FAILED"
  /\ terminal = <<<<"[ERROR] Connection Refused: ", "Server Rejected Connection">>>>
  /\ state.sessionId = {}
  /\ sockets = <<>>

Succeeded == {r \in DOMAIN fetches : fetches[r] = "ok"}

\* C13: bootstrap requests never outnumber submit actions and streams never
\* outnumber successful bootstrap responses; only an accepted submit issues a
\* request and only a successful bootstrap response opens a stream, so no
\* failure, transport error or closure causes either.
C13_NoAutomaticRetry ==
  /\ [](Len(fetches) <= submits /\ Len(sockets) <= Cardinality(Succeeded))
  /\ [][/\ Len(fetches') > Len(fetches) => last'.op = "submit"
        /\ Len(sockets') > Len(sockets) => last'.op = "bootstrap-ok"
        /\ last'.op \in {"error", "close", "bootstrap-failed"} =>
             (Len(fetches') = Len(fetches) /\ Len(sockets') = Len(sockets))]_vars

\* C13 witness: one bootstrap call failed, the next one's stream errored and
\* closed, and nothing was issued or opened again.
C13_FailuresNotRetried ==
  /\ last.op = "close"
  /\ submits = 2
  /\ fetches = <<"failed", "ok">>
  /\ Len(sockets) = 1
  /\ sockets[1].failed /\ sockets[1].readyState = "CLOSED"

\* the log lines a handler writes, given what ran (none, or one line)
LinesOf(l) ==
  CASE l.op = "open" -> {<<"[SYSTEM] Secure Uplink Established.">>}
    [] l.op = "error" -> {<<"[ERROR] Signal Lost.">>}
    [] l.op = "bootstrap-failed" ->
         {<<"[ERROR] Connection Refused: ", m>> : m \in ErrorMessages}
    [] l.op = "message" /\ l.msg.agent = "SEARCH" /\ l.msg.content \notin {{}, {""}} ->
         {<<"> ", Val(l.msg.content)>>}
    [] l.op = "message" /\ l.msg.agent = "ANALYST" /\ l.msg.content \notin {{}, {""}} ->
         {<<"[ANALYST] ", Val(l.msg.content)>>}
    [] l.op = "message" /\ l.msg.agent = "ERROR" ->
         {<<"[ERROR] ", IF l.msg.content \in {{}, {""}}
                        THEN "Unknown error occurred"
                        ELSE Val(l.msg.content)>>}
    [] OTHER -> {}

\* C14: the log is append-only between two resets and follows arrival order:
\* each handler that produces a line appends exactly that line at the end,
\* every other handler leaves the log as it is, and only the reset of a new
\* session empties it.
C14_LogFollowsArrival ==
  [][IF last'.op = "submit" THEN terminal' = <<>>
     ELSE IF LinesOf(last') = {} THEN terminal' = terminal
     ELSE \E line \in LinesOf(last') : terminal' = Append(terminal, line)]_vars

\* C14 witness: three events with content, logged in the order they arrived.
C14_ThreeLinesInOrder ==
  terminal = << <<"[SYSTEM] Secure Uplink Established.">>,
                <<"[ERROR] ", "scan">>,
                <<"> ", "scan">>,
                <<"[ANALYST] ", "scan">> >>

\* the streams that have ended: closed, or errored
Ended == {i \in DOMAIN sockets : sockets[i].readyState = "CLOSED" \/ sockets[i].failed}

\* C15: the client holds a session identifier only after a successful
\* bootstrap call, and no longer holds the identifier of a session whose
\* stream has closed or errored.
C15_SessionEndsWithStream ==
  /\ state.sessionId # {} => \E r \in DOMAIN fetches : fetches[r] = "ok"
  /\ \A i \in Ended : state.sessionId # {sockets[i].sessionId}

\* stream i belongs to a session older than the one started last
Earlier(i) == i \in DOMAIN sockets /\ sockets[i].sessionId # SessionId(Len(fetches))

\* C16: once a newer session has been started, an event or the closure of an
\* earlier session's stream changes neither the log, the stage cards, the code
\* buffer, the island nor the export button.
C16_EarlierStreamIgnored ==
  [][(last'.op \in {"message", "close"} /\ Earlier(last'.sock)) =>
       UNCHANGED <<terminal, cards, codePreview, island, btnExport>>]_vars

EnterPressed == {"submit", "submit-empty", "submit-paywall"}

C18_NewSessionStartsClean ==
  last.op = "submit" =>
    /\ terminal = <<>> /\ tags = <<>> /\ codePreview = <<>>
    /\ fileTree = <<TreeRoot>>
    /\ verdict.hidden /\ gauges.opacity0 /\ btnExport.hidden
    /\ \A c \in CardNames : ~Active(c) /\ ~Completed(c)
    /\ ~gauges.heatIntense /\ ~gauges.roiIntense

\* C19: a click on a nav item leaves exactly that item marked active, and
\* nothing but a nav click changes the marks, so after any clicks the one
\* marked item is the one clicked last; a click on the 'blueprint' item opens
\* the modal and scrolls nowhere; the modal loses 'open' only by a click on
\* one of its two close controls.
C19_NavAndModal ==
  [][/\ last'.op = "nav-click" =>
          /\ navActive' = {last'.item}
          /\ NavTargets[last'.item] = "blueprint" =>
               (blueprintModal'.open /\ scrolled' = scrolled)
     /\ last'.op # "nav-click" => navActive' = navActive
     /\ (blueprintModal.open /\ ~blueprintModal'.open) =>
          last'.op \in {"modal-close", "close-blueprint"}]_vars

\* C19 witness: 'blueprint' was clicked, then 'market': only 'market' is
\* marked, only that click scrolled, and the modal is still open.
C19_MarketAfterBlueprint ==
  /\ last.op = "nav-click" /\ NavTargets[last.item] = "market"
  /\ navActive = {last.item}
  /\ scrolled = <<"market">>
  /\ blueprintModal.open
  /\ clicks = 2

====
